---- MODULE Spec2Model ----
(***************************************************************************)
(* tbg ("Tasks But Good"): a terminal task-list viewer.                    *)
(*                                                                         *)
(* src/src/main.rs: main() spawns an event thread that multiplexes key     *)
(* presses and a one second tick into an mpsc channel, loads the task      *)
(* lists with read_db(), and then loops: draw, recv, match.  The cursor is *)
(* the pair (list_state.selected(), task_state.selected()).                *)
(*                                                                         *)
(* Rust indices are 0-based; TLA+ sequences are 1-based, so tasklists[i]   *)
(* of the code is tasklists[i + 1] here.  Option<usize> is a sequence of   *)
(* length at most one: None is << >>, Some(n) is <<n>>.                    *)
(***************************************************************************)
EXTENDS Integers, Sequences, FiniteSets, TLC

VARIABLES
    store,        \* ./data/db.json as the file system holds it
    overflow,     \* TRUE: built with overflow checks (debug), FALSE: release
    keyboard,     \* what the user is still going to do at the terminal
    now,          \* the monotonic clock behind Instant::now()
    last_tick,    \* event thread: last_tick
    src_pc,       \* event thread: position in its loop
    chan,         \* mpsc channel: events sent and not yet received
    produced,     \* history: every event sent on tx, in order
    consumed,     \* history: every event rx.recv() returned, in order
    tasklists,    \* main: tasklists
    list_state,   \* main: list_state.selected()
    task_state,   \* main: task_state.selected()
    task_len,     \* main: task_len
    main_pc,      \* main: position
    raw_mode,     \* terminal raw mode enabled
    exit_status,  \* how main ended: "ok", "err", or the line that panicked
    drawn         \* history: the cursor shown by each terminal.draw

srcVars  == <<keyboard, last_tick, src_pc>>
cursor   == <<list_state, task_state>>
mainVars == <<tasklists, list_state, task_state, task_len, main_pc, raw_mode,
              exit_status, drawn>>
vars == <<store, overflow, keyboard, now, last_tick, src_pc, chan, produced,
          consumed, tasklists, list_state, task_state, task_len, main_pc,
          raw_mode, exit_status, drawn>>

-----------------------------------------------------------------------------
(* Bounds of the model.                                                    *)

MaxLists == 2        \* task lists in a parsed store
MaxTasks == 1        \* tasks in one list of a parsed store
MaxKeys  == 1        \* terminal events the user produces in one run
MaxTime  == 4        \* the clock stops here

(* Program constants.                                                      *)

tick_rate == 2       \* Duration::from_secs(1), in half seconds
UsizeBits == 30      \* width kept for usize: enough to exceed every index

-----------------------------------------------------------------------------
(* Values.                                                                 *)

None    == << >>
Some(n) == <<n>>

Min(a, b) == IF a < b THEN a ELSE b

\* KeyCode::Char(c) for the five keys the match names, and any other key.
Keys == {"q", "h", "j", "k", "l", "x"}

\* A crossterm event that is not CEvent::Key (resize, mouse), and the input
\* device failing: event::poll or event::read returns Err.
Resize == "resize"
Broken == "broken"

Input(k) == [type |-> "Input", code |-> k]
Tick     == [type |-> "Tick", code |-> ""]

\* struct TaskList, struct Task: a task is kept as its id.
TaskList(i, n) == [id |-> i, tasks |-> [j \in 1..n |-> j - 1]]

RECURSIVE SeqsUpTo(_, _)
SeqsUpTo(S, n) ==
    IF n = 0 THEN {<< >>}
    ELSE LET shorter == SeqsUpTo(S, n - 1)
         IN  shorter \cup {Append(s, x) : s \in {t \in shorter : Len(t) = n - 1}, x \in S}

\* What serde_json can parse as Vec<TaskList>: any number of lists, each with
\* any number of tasks, none excluded.
Collection(counts) == [i \in 1..Len(counts) |-> TaskList(i - 1, counts[i])]
Collections == {Collection(c) : c \in SeqsUpTo(0..MaxTasks, MaxLists)}

\* The two lists of the navigation scenario: 2 tasks and 5 tasks.
ScenarioLists == Collection(<<2, 5>>)
ScenarioKeys  == <<"j", "l", "j", "j", "j", "j", "k", "h", "k", "l", "j">>

\* The default list of read_db: Personal and School, two tasks each.
Default == <<TaskList(0, 2), TaskList(1, 2)>>

\* The file system at DB_PATH: no ./data directory, no file, a file that is
\* not a Vec<TaskList>, or a file that parses.
File(kind, c) == [kind |-> kind, content |-> c]
Stores == {File("nodir", << >>), File("nofile", << >>), File("garbage", << >>)}
              \cup {File("json", c) : c \in Collections}

\* Three more walks, tried on every store: down and up the list pane past
\* both ends; in and out of the task pane and in again; and a key without an
\* arm, quit, and a key pressed after the quit.
ListKeys      == <<"j", "j", "k", "k">>
RoundTripKeys == <<"l", "k", "j", "h", "l">>
QuitKeys      == <<"l", "x", "q", "j">>

\* What the user does at the terminal: every sequence of at most MaxKeys
\* keys and other events, possibly with the device failing in the end
\* (nothing is read from it after that), and the three walks.
Typed ==
    LET working == SeqsUpTo(Keys \cup {Resize}, MaxKeys)
    IN  working \cup {Append(w, Broken) : w \in {v \in working : Len(v) < MaxKeys}}
                \cup {ListKeys, RoundTripKeys, QuitKeys}

\* One run of the program: what is on disk and what the user does.
Runs == (Stores \X Typed) \cup {<<File("json", ScenarioLists), ScenarioKeys>>}

-----------------------------------------------------------------------------
(* read_db.                                                                *)

fs_read_ok(s)  == s.kind \in {"garbage", "json"}
from_str_ok(s) == s.kind = "json"
fs_write_ok(s) == s.kind # "nodir"

\* The value read_db returns and the store it leaves; "panic" when
\* fs::write(..).unwrap() fails.
read_db(s) ==
    IF fs_read_ok(s) /\ from_str_ok(s)
    THEN [outcome |-> "ok", value |-> s.content, store |-> s]
    ELSE IF fs_write_ok(s)
    THEN [outcome |-> "ok", value |-> Default, store |-> File("json", Default)]
    ELSE [outcome |-> "panic", value |-> << >>, store |-> s]

\* usize subtraction `n - 1`: panics with overflow checks, wraps without.
sub_one_panics(n) == overflow /\ n = 0
sub_one(n) == (n - 1) % (2 ^ UsizeBits)

-----------------------------------------------------------------------------
(* The state after main.rs:54-87: raw mode on, channel created, event      *)
(* thread spawned, list_state.select(Some(0)), task_state.select(None).    *)
(* Nothing but the channel is shared between the two threads, so main's    *)
(* statements between two blocking calls are one step (recv, the arm and   *)
(* the draw of the next iteration); the event thread takes two steps per   *)
(* iteration, the poll with what it reads and sends and the tick check,    *)
(* and time can pass between the two.                                      *)

Init ==
    /\ \E r \in Runs : store = r[1] /\ keyboard = r[2]
    /\ overflow \in BOOLEAN
    /\ now = 0
    /\ last_tick = 0
    /\ src_pc = "poll"
    /\ chan = << >>
    /\ produced = << >>
    /\ consumed = << >>
    /\ tasklists = << >>
    /\ list_state = Some(0)
    /\ task_state = None
    /\ task_len = 0
    /\ main_pc = "start"
    /\ raw_mode = TRUE
    /\ exit_status = "none"
    /\ drawn = << >>

\* rx lives until main returns or unwinds; the event thread lives until the
\* process ends.
rx_alive      == main_pc \in {"start", "recv"}
process_alive == main_pc # "exited"

-----------------------------------------------------------------------------
(* The event thread, main.rs:58-77.                                        *)

elapsed == now - last_tick

\* main.rs:61-63
\* tick_rate.checked_sub(last_tick.elapsed()).unwrap_or_else(|| 0)
timeout == IF tick_rate >= elapsed THEN tick_rate - elapsed ELSE 0

\* tx.send(e) with rx alive.
send(e) ==
    /\ chan' = Append(chan, e)
    /\ produced' = Append(produced, e)

\* event::poll(timeout) returns Ok(true), d after the call.
poll_ready(d) ==
    /\ process_alive /\ src_pc = "poll"
    /\ keyboard # << >>
    /\ d <= timeout /\ now + d <= MaxTime
    /\ now' = now + d

\* Faulty variant of PollKey: sending a key also restarts the tick interval.
PollKey_resets(d) ==
    /\ poll_ready(d)
    /\ Head(keyboard) \in Keys
    /\ rx_alive
    /\ send(Input(Head(keyboard)))
    /\ keyboard' = Tail(keyboard)
    /\ last_tick' = now'
    /\ src_pc' = "tick"
    /\ UNCHANGED <<store, overflow, consumed>>
    /\ UNCHANGED mainVars

\* Faulty variant of PollKey: after a key the loop polls again without the
\* tick check.
PollKey_polls_again(d) ==
    /\ poll_ready(d)
    /\ Head(keyboard) \in Keys
    /\ rx_alive
    /\ send(Input(Head(keyboard)))
    /\ keyboard' = Tail(keyboard)
    /\ src_pc' = "poll"
    /\ UNCHANGED <<store, overflow, last_tick, consumed>>
    /\ UNCHANGED mainVars

\* main.rs:65-68: poll is true, event::read() is a key, tx.send(Input(key)).
PollKey(d) ==
    /\ poll_ready(d)
    /\ Head(keyboard) \in Keys
    /\ rx_alive
    /\ send(Input(Head(keyboard)))
    /\ keyboard' = Tail(keyboard)
    /\ src_pc' = "tick"
    /\ UNCHANGED <<store, overflow, last_tick, consumed>>
    /\ UNCHANGED mainVars

\* The same with rx dropped: expect("can send events") panics the thread.
PollKeySendFails(d) ==
    /\ poll_ready(d)
    /\ Head(keyboard) \in Keys
    /\ ~rx_alive
    /\ keyboard' = Tail(keyboard)
    /\ src_pc' = "panicked"
    /\ UNCHANGED <<store, overflow, last_tick, chan, produced, consumed>>
    /\ UNCHANGED mainVars

\* main.rs:65-66: poll is true, event::read() is not a key: nothing is sent.
PollOther(d) ==
    /\ poll_ready(d)
    /\ Head(keyboard) = Resize
    /\ keyboard' = Tail(keyboard)
    /\ src_pc' = "tick"
    /\ UNCHANGED <<store, overflow, last_tick, chan, produced, consumed>>
    /\ UNCHANGED mainVars

\* main.rs:65: poll is false, the timeout elapsed.
PollTimeout ==
    /\ process_alive /\ src_pc = "poll"
    /\ now + timeout <= MaxTime
    /\ now' = now + timeout
    /\ src_pc' = "tick"
    /\ UNCHANGED <<store, overflow, keyboard, last_tick, chan, produced, consumed>>
    /\ UNCHANGED mainVars

\* main.rs:65: poll is Err, expect("poll works") panics the thread.
PollFails ==
    /\ process_alive /\ src_pc = "poll"
    /\ keyboard # << >> /\ Head(keyboard) = Broken
    /\ src_pc' = "panicked"
    /\ UNCHANGED <<store, overflow, keyboard, now, last_tick, chan, produced, consumed>>
    /\ UNCHANGED mainVars

\* main.rs:66: poll is true, event::read() is Err, expect("can read events")
\* panics the thread.
ReadFails(d) ==
    /\ poll_ready(d)
    /\ Head(keyboard) = Broken
    /\ src_pc' = "panicked"
    /\ UNCHANGED <<store, overflow, keyboard, last_tick, chan, produced, consumed>>
    /\ UNCHANGED mainVars

\* Faulty variant of SendTick: last_tick is not set after the send.
SendTick_no_reset ==
    /\ process_alive /\ src_pc = "tick"
    /\ elapsed >= tick_rate
    /\ rx_alive
    /\ send(Tick)
    /\ src_pc' = "poll"
    /\ UNCHANGED <<store, overflow, keyboard, now, last_tick, consumed>>
    /\ UNCHANGED mainVars

\* main.rs:71-75: last_tick.elapsed() >= tick_rate, tx.send(Tick) is Ok.
SendTick ==
    /\ process_alive /\ src_pc = "tick"
    /\ elapsed >= tick_rate
    /\ rx_alive
    /\ send(Tick)
    /\ last_tick' = now
    /\ src_pc' = "poll"
    /\ UNCHANGED <<store, overflow, keyboard, now, consumed>>
    /\ UNCHANGED mainVars

\* main.rs:71-75: last_tick.elapsed() >= tick_rate, tx.send(Tick) is Err.
SendTickFails ==
    /\ process_alive /\ src_pc = "tick"
    /\ elapsed >= tick_rate
    /\ ~rx_alive
    /\ src_pc' = "poll"
    /\ UNCHANGED <<store, overflow, keyboard, now, last_tick, chan, produced, consumed>>
    /\ UNCHANGED mainVars

\* main.rs:71: last_tick.elapsed() < tick_rate.
NoTick ==
    /\ process_alive /\ src_pc = "tick"
    /\ elapsed < tick_rate
    /\ src_pc' = "poll"
    /\ UNCHANGED <<store, overflow, keyboard, now, last_tick, chan, produced, consumed>>
    /\ UNCHANGED mainVars

\* Time passes between poll returning and the check at line 71 (the time
\* that passes before and in poll is the d of the poll).
Tock ==
    /\ process_alive /\ src_pc = "tick"
    /\ now < MaxTime
    /\ now' = now + 1
    /\ UNCHANGED <<store, overflow, keyboard, last_tick, src_pc, chan, produced, consumed>>
    /\ UNCHANGED mainVars

-----------------------------------------------------------------------------
(* main, main.rs:89-181.                                                   *)

\* A panic on the main thread at `line`: unwinding drops rx and the process
\* is about to end; the terminal is left as it was.
main_panics(line) ==
    /\ main_pc' = "returned"
    /\ exit_status' = line
    /\ UNCHANGED <<raw_mode, drawn, task_len>>

\* tasklists[i].tasks.len()
tasks_len(lists, i) == Len(lists[i + 1].tasks)

\* Faulty variant of last_row: the bound of line 90, of the first list, is
\* never replaced.
last_row_of_first_list(lists, selected_list) == sub_one(tasks_len(lists, 0))

\* main.rs:121 (and line 90 for list 0): tasklists[selected_list].tasks.len() - 1
last_row(lists, selected_list) == sub_one(tasks_len(lists, selected_list))

\* main.rs:93-126, terminal.draw for the cursor <<list, task>>: task_len is
\* set from the selected list at line 121, then the two panes are rendered.
\* `tasks.len() - 1` panics for a list without tasks under overflow checks.
draw(lists, list, task) ==
    LET selected_list == list[1]
    IN  IF sub_one_panics(tasks_len(lists, selected_list))
        THEN main_panics("panic:121")
        ELSE /\ task_len' = last_row(lists, selected_list)
             /\ drawn' = Append(drawn, <<list, task>>)
             /\ main_pc' = "recv"
             /\ UNCHANGED <<raw_mode, exit_status>>

\* main.rs:89-126 when read_db() returns: line 90 and the first draw.
Startup ==
    /\ main_pc = "start"
    /\ read_db(store).outcome = "ok"
    /\ tasklists' = read_db(store).value
    /\ store' = read_db(store).store
    /\ tasklists' # << >>
    /\ ~sub_one_panics(tasks_len(tasklists', 0))
    /\ draw(tasklists', list_state, task_state)
    /\ UNCHANGED <<list_state, task_state>>
    /\ UNCHANGED <<overflow, keyboard, now, last_tick, src_pc, chan, produced, consumed>>

\* main.rs:89 when read_db() panics in fs::write(..).unwrap().
ReadDbPanics ==
    /\ main_pc = "start"
    /\ read_db(store).outcome = "panic"
    /\ main_panics("panic:309")
    /\ UNCHANGED <<tasklists, list_state, task_state>>
    /\ UNCHANGED <<store, overflow, keyboard, now, last_tick, src_pc, chan, produced, consumed>>

\* main.rs:90 panics: tasklists[0] is out of bounds, or len() - 1 overflows.
InitTaskLenPanics ==
    /\ main_pc = "start"
    /\ read_db(store).outcome = "ok"
    /\ tasklists' = read_db(store).value
    /\ store' = read_db(store).store
    /\ \/ tasklists' = << >>
       \/ tasklists' # << >> /\ sub_one_panics(tasks_len(tasklists', 0))
    /\ main_panics("panic:90")
    /\ UNCHANGED <<list_state, task_state>>
    /\ UNCHANGED <<overflow, keyboard, now, last_tick, src_pc, chan, produced, consumed>>

\* main.rs:126, let list_len = tasklists.len() - 1.
list_len == sub_one(Len(tasklists))

\* Faulty variant of recv: the newest event in the channel is returned.
recv_newest(e) ==
    /\ main_pc = "recv"
    /\ chan # << >>
    /\ e = chan[Len(chan)]
    /\ chan' = SubSeq(chan, 1, Len(chan) - 1)
    /\ consumed' = Append(consumed, e)
    /\ UNCHANGED <<store, overflow, keyboard, now, last_tick, src_pc, produced>>

\* main.rs:128, rx.recv() returns Ok(e): the oldest event in the channel.
recv(e) ==
    /\ main_pc = "recv"
    /\ chan # << >>
    /\ e = Head(chan)
    /\ chan' = Tail(chan)
    /\ consumed' = Append(consumed, e)
    /\ UNCHANGED <<store, overflow, keyboard, now, last_tick, src_pc, produced>>

\* Faulty variant of quit: the loop is left without disable_raw_mode.
quit_in_raw_mode ==
    /\ main_pc' = "returned"
    /\ exit_status' = "ok"
    /\ UNCHANGED <<tasklists, list_state, task_state, task_len, raw_mode, drawn>>

\* Faulty variant of quit: the break is missing.
quit_without_break ==
    /\ raw_mode' = FALSE
    /\ main_pc' = "recv"
    /\ UNCHANGED <<tasklists, list_state, task_state, task_len, exit_status, drawn>>

\* main.rs:131-135 and 152-156, then line 181: disable_raw_mode,
\* show_cursor, break, Ok(()).
quit ==
    /\ raw_mode' = FALSE
    /\ main_pc' = "returned"
    /\ exit_status' = "ok"
    /\ UNCHANGED <<tasklists, list_state, task_state, task_len, drawn>>

\* Faulty variant of task_j: stops one row short of the last.
task_j_short(task_selected) ==
    IF task_selected + 1 # task_len THEN Some(task_selected + 1) ELSE Some(task_selected)

\* main.rs:139-143
task_j(task_selected) ==
    IF task_selected # task_len THEN Some(task_selected + 1) ELSE Some(task_selected)

\* main.rs:144-148
task_k(task_selected) ==
    IF task_selected # 0 THEN Some(task_selected - 1) ELSE Some(task_selected)

\* Faulty variant of list_j: wraps to the first list after the last.
list_j_wraps(selected) ==
    IF selected # list_len THEN Some(selected + 1) ELSE Some(0)

\* main.rs:157-163
list_j(selected) ==
    IF selected # list_len THEN Some(selected + 1) ELSE Some(selected)

\* main.rs:164-170
list_k(selected) ==
    IF selected # 0 THEN Some(selected - 1) ELSE Some(selected)

\* Faulty variant of enter_tasks: the task pane is entered at its last row.
enter_tasks_last == Some(task_len)

\* main.rs:172
enter_tasks == Some(0)

\* Faulty variant of select: the arm changes the selection and the loop
\* waits for the next event without drawing.
select_without_draw(list, task) ==
    /\ list_state' = list
    /\ task_state' = task
    /\ UNCHANGED <<tasklists, task_len, main_pc, raw_mode, exit_status, drawn>>

\* An arm that stays in the loop: the next iteration draws the new cursor
\* and main blocks in recv again.
select(list, task) ==
    /\ list_state' = list
    /\ task_state' = task
    /\ draw(tasklists, list, task)
    /\ UNCHANGED tasklists

\* main.rs:130-150, Some(task_selected) => match event.code
TaskQuit ==
    /\ recv(Input("q")) /\ task_state # None
    /\ quit

\* Faulty variant of TaskH: h also goes back to the first list.
TaskH_first_list ==
    /\ recv(Input("h")) /\ task_state # None
    /\ select(Some(0), None)

TaskH ==
    /\ recv(Input("h")) /\ task_state # None
    /\ select(list_state, None)

TaskJ ==
    /\ recv(Input("j")) /\ task_state # None
    /\ select(list_state, task_j(task_state[1]))

TaskK ==
    /\ recv(Input("k")) /\ task_state # None
    /\ select(list_state, task_k(task_state[1]))

\* Faulty variant of TaskOther: a key without an arm goes back to the list
\* pane.
TaskOther_leaves ==
    /\ \E c \in Keys \ {"q", "h", "j", "k"} : recv(Input(c))
    /\ task_state # None
    /\ select(list_state, None)

TaskOther ==
    /\ \E c \in Keys \ {"q", "h", "j", "k"} : recv(Input(c))
    /\ task_state # None
    /\ select(list_state, task_state)

\* main.rs:151-175, None => match event.code
ListQuit ==
    /\ recv(Input("q")) /\ task_state = None
    /\ quit

ListJ ==
    /\ recv(Input("j")) /\ task_state = None
    /\ select(list_j(list_state[1]), task_state)

ListK ==
    /\ recv(Input("k")) /\ task_state = None
    /\ select(list_k(list_state[1]), task_state)

ListL ==
    /\ recv(Input("l")) /\ task_state = None
    /\ select(list_state, enter_tasks)

ListOther ==
    /\ \E c \in Keys \ {"q", "j", "k", "l"} : recv(Input(c))
    /\ task_state = None
    /\ select(list_state, task_state)

\* Faulty variant of RecvTick: a Tick drops the task selection.
RecvTick_deselects ==
    /\ recv(Tick)
    /\ select(list_state, None)

\* main.rs:177, Event::Tick => {}
RecvTick ==
    /\ recv(Tick)
    /\ select(list_state, task_state)

\* Faulty variant of RecvDisconnected: recv goes on waiting when the event
\* thread is gone.
RecvDisconnected_waits ==
    /\ main_pc = "recv"
    /\ chan = << >>
    /\ src_pc = "panicked"
    /\ UNCHANGED mainVars
    /\ UNCHANGED <<store, overflow, keyboard, now, last_tick, src_pc, chan, produced, consumed>>

\* main.rs:128, rx.recv()? with the channel empty and tx dropped by the
\* panicked event thread: main returns the error.
RecvDisconnected ==
    /\ main_pc = "recv"
    /\ chan = << >>
    /\ src_pc = "panicked"
    /\ main_pc' = "returned"
    /\ exit_status' = "err"
    /\ UNCHANGED <<tasklists, list_state, task_state, task_len, raw_mode, drawn>>
    /\ UNCHANGED <<store, overflow, keyboard, now, last_tick, src_pc, chan, produced, consumed>>

\* The process ends, and the event thread with it.
Exit ==
    /\ main_pc = "returned"
    /\ main_pc' = "exited"
    /\ UNCHANGED <<tasklists, list_state, task_state, task_len, raw_mode, exit_status, drawn>>
    /\ UNCHANGED <<store, overflow, keyboard, now, last_tick, src_pc, chan, produced, consumed>>

-----------------------------------------------------------------------------

Next ==
    \/ \E d \in 0..tick_rate : PollKey(d)
    \/ \E d \in 0..tick_rate : PollKeySendFails(d)
    \/ \E d \in 0..tick_rate : PollOther(d)
    \/ PollTimeout
    \/ PollFails
    \/ \E d \in 0..tick_rate : ReadFails(d)
    \/ SendTick
    \/ SendTickFails
    \/ NoTick
    \/ Tock
    \/ Startup
    \/ ReadDbPanics
    \/ InitTaskLenPanics
    \/ TaskQuit
    \/ TaskH
    \/ TaskJ
    \/ TaskK
    \/ TaskOther
    \/ ListQuit
    \/ ListJ
    \/ ListK
    \/ ListL
    \/ ListOther
    \/ RecvTick
    \/ RecvDisconnected
    \/ Exit

Spec == Init /\ [][Next]_vars

\* The steps of the spawned thread (main.rs:58-77) and of main (main.rs:89-181).
event_thread ==
    \/ \E d \in 0..tick_rate : PollKey(d)
    \/ \E d \in 0..tick_rate : PollKeySendFails(d)
    \/ \E d \in 0..tick_rate : PollOther(d)
    \/ PollTimeout
    \/ PollFails
    \/ \E d \in 0..tick_rate : ReadFails(d)
    \/ SendTick
    \/ SendTickFails
    \/ NoTick

main ==
    \/ Startup \/ ReadDbPanics \/ InitTaskLenPanics
    \/ TaskQuit \/ TaskH \/ TaskJ \/ TaskK \/ TaskOther
    \/ ListQuit \/ ListJ \/ ListK \/ ListL \/ ListOther
    \/ RecvTick \/ RecvDisconnected \/ Exit

\* Both are operating-system threads: one that can take a step is scheduled
\* in the end. Nothing obliges time to pass or the user to type. What is
\* asked of such runs is about the two threads and the channel between them,
\* which the number of task lists does not touch: they start from the stores
\* that do not parse and from parsed stores of at most one list.
FairInit == Init /\ (store.kind = "json" => Len(store.content) <= 1)

FairSpec == FairInit /\ [][Next]_vars /\ WF_vars(main) /\ WF_vars(event_thread)

TypeOK ==
    /\ main_pc \in {"start", "recv", "returned", "exited"}
    /\ src_pc \in {"poll", "tick", "panicked"}
    /\ last_tick <= now /\ now <= MaxTime

-----------------------------------------------------------------------------
(* Vocabulary of the properties.                                           *)

ListFocus == task_state = None
TaskFocus == task_state # None

\* This step is main receiving e and running its arm.
Consumes(e) ==
    /\ main_pc = "recv"
    /\ chan # << >>
    /\ Head(chan) = e
    /\ consumed' = Append(consumed, e)

\* The keys received so far, in order.
consumed_keys ==
    LET inputs == SelectSeq(consumed, LAMBDA e : e.type = "Input")
    IN  [i \in 1..Len(inputs) |-> inputs[i].code]

Prefix(seq, n) == SubSeq(seq, 1, n)
IsPrefix(s, t) == Len(s) <= Len(t) /\ s = Prefix(t, Len(s))
Last(seq)      == seq[Len(seq)]

\* The loop has been entered: the first draw has happened.
InLoop == drawn # << >>

\* tasks[list_index].length for the selected list.
selected_tasks == Len(tasklists[list_state[1] + 1].tasks)

-----------------------------------------------------------------------------
(* C1. Whenever task_index is present, 0 <= task_index and task_index <=   *)
(* tasks[list_index].length - 1.  The code breaks it: read_db hands on a   *)
(* list without tasks (see C3), a release build wraps task_len to          *)
(* usize::MAX for it, l selects row 0 of no rows and j keeps adding one.   *)

C1_TaskIndexInRange ==
    (InLoop /\ TaskFocus) =>
        (0 <= task_state[1] /\ task_state[1] <= selected_tasks - 1)

-----------------------------------------------------------------------------
(* C2. From the first draw on, list_index is within [0, listCount - 1];    *)
(* j in ListFocus makes it min(list_index + 1, listCount - 1) and k makes  *)
(* it max(list_index - 1, 0): one step, saturating, never wrapping.        *)

C2_ListIndex ==
    /\ [](InLoop => (0 <= list_state[1] /\ list_state[1] <= Len(tasklists) - 1))
    /\ [][(Consumes(Input("j")) /\ ListFocus) =>
            list_state' = Some(Min(list_state[1] + 1, Len(tasklists) - 1))]_vars
    /\ [][(Consumes(Input("k")) /\ ListFocus) =>
            list_state' = Some(IF list_state[1] = 0 THEN 0 ELSE list_state[1] - 1)]_vars

\* Two lists, and j j k k received: j moved to the last list and stayed
\* there, k moved back to the first and stayed there.
C2_Witness ==
    /\ Len(tasklists) = 2
    /\ consumed_keys = ListKeys
    /\ Len(drawn) = 5
    /\ drawn[3] = <<Some(1), None>> /\ drawn[4] = <<Some(0), None>>
    /\ cursor = <<Some(0), None>>

-----------------------------------------------------------------------------
(* C3. What read_db returns is non-empty and each of its lists has at      *)
(* least one task.  The code breaks it: a store that parses is returned    *)
(* as it is, with no lists or with lists without tasks.                    *)

C3_LoadedNonEmpty ==
    (main_pc # "start" /\ exit_status # "panic:309") =>
        /\ tasklists # << >>
        /\ \A i \in 1..Len(tasklists) : Len(tasklists[i].tasks) >= 1

-----------------------------------------------------------------------------
(* C4. l in ListFocus gives TaskFocus at task_index 0 and leaves           *)
(* list_index as it is, whatever was selected before.                      *)

C4_EnterAtZero ==
    [][(Consumes(Input("l")) /\ ListFocus) =>
        (task_state' = Some(0) /\ list_state' = list_state)]_vars

\* The scenario up to its second l: row 4 of list 1 was reached, then list 0
\* is entered at row 0.
C4_Witness ==
    /\ tasklists = ScenarioLists
    /\ consumed_keys = Prefix(ScenarioKeys, 10)
    /\ <<Some(1), Some(4)>> \in {drawn[i] : i \in 1..Len(drawn)}
    /\ cursor = <<Some(0), Some(0)>>

-----------------------------------------------------------------------------
(* C5. l in ListFocus, then any j and k, then h: the cursor is back in     *)
(* ListFocus on the list it was on before the l; an l right after that     *)
(* enters the same list at task_index 0.  drawn[i] is the cursor before    *)
(* the i-th event and drawn[i + 1] the cursor after it.                    *)

C5_RoundTrip ==
    \A i, j \in 1..(Len(drawn) - 1) :
        ( /\ i < j
          /\ consumed[i] = Input("l") /\ drawn[i][2] = None
          /\ consumed[j] = Input("h")
          /\ \A m \in (i + 1)..(j - 1) : consumed[m] \in {Input("j"), Input("k")} )
        => /\ drawn[j + 1] = <<drawn[i][1], None>>
           /\ (j + 1 <= Len(drawn) - 1 /\ consumed[j + 1] = Input("l"))
                  => drawn[j + 2] = <<drawn[i][1], Some(0)>>

\* The round trip l, k, j, h, l has been made on a list where j moved.
C5_Witness ==
    /\ consumed_keys = RoundTripKeys
    /\ Len(drawn) = Len(consumed) + 1
    /\ \E i \in 1..Len(drawn) : drawn[i][2] = Some(1)
    /\ cursor = <<Some(0), Some(0)>>

-----------------------------------------------------------------------------
(* C6. Receiving a Tick changes neither list_index nor task_index.         *)

C6_TickKeepsCursor ==
    [][Consumes(Tick) => (list_state' = list_state /\ task_state' = task_state)]_vars

\* A Tick has been received in TaskFocus, below the first row.
C6_Witness ==
    /\ consumed # << >> /\ Last(consumed) = Tick
    /\ TaskFocus /\ task_state[1] > 0
    /\ main_pc = "recv"

-----------------------------------------------------------------------------
(* C7. q received in either state ends the loop and leaves the cursor as   *)
(* it is; from then on nothing is received and the cursor never changes,   *)
(* whatever is in the channel or sent later.                               *)

Stopped == main_pc \in {"returned", "exited"}

C7_QuitOnce ==
    /\ [][Consumes(Input("q")) =>
            (main_pc' = "returned" /\ exit_status' = "ok" /\ cursor' = cursor)]_vars
    /\ [][Stopped => (Stopped' /\ consumed' = consumed /\ cursor' = cursor)]_vars

\* q was received in TaskFocus and the process is gone with an event still
\* in the channel.
C7_Witness ==
    /\ main_pc = "exited" /\ exit_status = "ok"
    /\ Last(consumed) = Input("q")
    /\ TaskFocus
    /\ chan # << >>

-----------------------------------------------------------------------------
(* C8. Two lists of 2 and 5 tasks, start at (0, none): after the first n   *)
(* keys of j l j j j j k h k l j the cursor is the n-th of (1,none) (1,0)  *)
(* (1,1) (1,2) (1,3) (1,4) (1,3) (1,none) (0,none) (0,0) (0,1).            *)

ScenarioCursors ==
    << <<Some(1), None>>, <<Some(1), Some(0)>>, <<Some(1), Some(1)>>,
       <<Some(1), Some(2)>>, <<Some(1), Some(3)>>, <<Some(1), Some(4)>>,
       <<Some(1), Some(3)>>, <<Some(1), None>>, <<Some(0), None>>,
       <<Some(0), Some(0)>>, <<Some(0), Some(1)>> >>

C8_Scenario ==
    \A n \in 0..Len(ScenarioKeys) :
        (tasklists = ScenarioLists /\ consumed_keys = Prefix(ScenarioKeys, n)) =>
            cursor = (IF n = 0 THEN <<Some(0), None>> ELSE ScenarioCursors[n])

\* The whole scenario has been played.
C8_Witness ==
    /\ tasklists = ScenarioLists
    /\ consumed_keys = ScenarioKeys
    /\ cursor = <<Some(0), Some(1)>>

-----------------------------------------------------------------------------
(* C9. What main has received is a prefix of what the event thread has     *)
(* sent, and while main can still receive, what was sent is exactly what   *)
(* was received followed by what is in the channel: nothing is dropped,    *)
(* duplicated, reordered or merged.                                        *)

C9_Fifo ==
    /\ IsPrefix(consumed, produced)
    /\ rx_alive => produced = consumed \o chan

\* Keys and a Tick have been received while more events were waiting.
C9_Witness ==
    /\ Len(consumed) >= 3
    /\ Tick \in {consumed[i] : i \in 1..Len(consumed)}
    /\ \E i \in 1..Len(consumed) : consumed[i].type = "Input"
    /\ Len(chan) >= 2
    /\ main_pc = "recv"

-----------------------------------------------------------------------------
(* C10. A key that arrives during a poll, while main can still receive,    *)
(* is sent as KeyPress(key) and last_tick stays as it is: the deadline     *)
(* last_tick + tick_rate of the next Tick is not moved.                    *)

KeyArrives ==
    /\ src_pc = "poll" /\ src_pc' # "poll"
    /\ keyboard # << >> /\ Head(keyboard) \in Keys
    /\ keyboard' = Tail(keyboard)
    /\ rx_alive

C10_KeyKeepsDeadline ==
    [][KeyArrives =>
        /\ produced' = Append(produced, Input(Head(keyboard)))
        /\ chan' = Append(chan, Input(Head(keyboard)))
        /\ last_tick' = last_tick]_vars

\* A key has just been sent part way to the deadline.
C10_Witness ==
    /\ src_pc = "tick"
    /\ produced # << >> /\ Last(produced).type = "Input"
    /\ 0 < elapsed /\ elapsed < tick_rate

-----------------------------------------------------------------------------
(* C11. When poll times out, the time since the last tick is at least      *)
(* tick_rate, so the check that follows sends a Tick; a Tick is only ever  *)
(* sent with at least tick_rate elapsed since last_tick, and sending it    *)
(* sets last_tick to the present, so the next deadline is now + tick_rate  *)
(* and two Ticks in a row are at least tick_rate apart.                    *)

PollTimesOut ==
    /\ src_pc = "poll" /\ src_pc' = "tick"
    /\ keyboard' = keyboard

TickSent == produced' = Append(produced, Tick)

C11_TickInterval ==
    /\ [][PollTimesOut => (now' - last_tick' >= tick_rate)]_vars
    /\ [][(src_pc = "tick" /\ src_pc' = "poll" /\ elapsed >= tick_rate /\ rx_alive)
            => TickSent]_vars
    /\ [][TickSent => (elapsed >= tick_rate /\ last_tick' = now')]_vars

\* Two Ticks have been sent, the second one tick_rate after the first.
C11_Witness ==
    /\ Len(SelectSeq(produced, LAMBDA e : e = Tick)) = 2
    /\ last_tick = 2 * tick_rate
    /\ now = last_tick

-----------------------------------------------------------------------------
(* C12. When the file at DB_PATH is missing, unreadable or does not parse, *)
(* read_db writes the default collection to DB_PATH and returns it, and    *)
(* main goes on with it: the load does not fail.                           *)

LoadEnds == main_pc = "start" /\ main_pc' # "start"

C12_LoadRecovers ==
    [][(LoadEnds /\ ~(fs_read_ok(store) /\ from_str_ok(store)))
         => /\ tasklists' = Default
            /\ store' = File("json", Default)
            /\ main_pc' = "recv"
            /\ exit_status' = "none"]_vars

-----------------------------------------------------------------------------
(* C13. When poll or read fails on the terminal, the event thread ends     *)
(* there and sends nothing any more, and main does not stay blocked in     *)
(* recv: once the thread is gone the process comes to its end.             *)

C13_DeviceFailureIsFatal ==
    /\ [][src_pc = "panicked" => (src_pc' = "panicked" /\ produced' = produced)]_vars
    /\ (src_pc = "panicked") ~> (main_pc = "exited")

\* The device failed after a Tick was consumed; main got the error from recv
\* and the process has ended.
C13_Witness ==
    /\ keyboard # << >> /\ Head(keyboard) = Broken
    /\ src_pc = "panicked"
    /\ consumed # << >>
    /\ exit_status = "err"
    /\ main_pc = "exited"

-----------------------------------------------------------------------------
(* C14. The loop draws once before it waits for an event and once after    *)
(* every event it has handled, Tick included: while main waits in recv,    *)
(* one frame more has been drawn than events were consumed, and the last   *)
(* frame shows the cursor the last consumed event left. Frames never       *)
(* outnumber the consumed events by more than that one.                    *)

C14_DrawPerEvent ==
    /\ Len(drawn) \in {Len(consumed), Len(consumed) + 1}
    /\ main_pc = "recv" =>
         /\ Len(drawn) = Len(consumed) + 1
         /\ Last(drawn) = cursor

\* A key and a Tick have been consumed and three frames drawn, the second
\* with the selection the key made.
C14_Witness ==
    /\ main_pc = "recv"
    /\ consumed = <<Input("l"), Tick>>
    /\ drawn = <<<<Some(0), None>>, <<Some(0), Some(0)>>, <<Some(0), Some(0)>>>>

-----------------------------------------------------------------------------
(* What terminal.draw puts on the screen, main.rs:115-123.                 *)

\* main.rs:184-206: one ListItem per task list, in the order of the Vec. A
\* list's name is not kept here; its id stands for the text of the row.
render_lists(lists) == [i \in 1..Len(lists) |-> lists[i].id]

\* main.rs:208-257: one Row per task of the list, in the order of the Vec.
render_tasks(list) == [j \in 1..Len(list.tasks) |-> list.tasks[j]]

\* main.rs:122-123, render_stateful_widget(widget, area, &mut state): the
\* widget's rows, and the highlight style on the row the state selects when
\* there is such a row.
render_stateful_widget(rows, state) ==
    [rows        |-> rows,
     highlighted |-> {i \in 0..(Len(rows) - 1) : state = Some(i)}]

\* The two panes of the frame drawn for the cursor <<list, task>>.
frame(lists, list, task) ==
    LET selected_list == list[1]
    IN  [lists |-> render_stateful_widget(render_lists(lists), list),
         tasks |-> render_stateful_widget(render_tasks(lists[selected_list + 1]), task)]

(* C15. Every frame on the screen shows, in the list pane, one row per     *)
(* task list in order with exactly the row list_index highlighted, and in  *)
(* the task pane one row per task of the selected list in order, with the  *)
(* row task_index highlighted in TaskFocus and no row highlighted in       *)
(* ListFocus.                                                              *)

C15_FrameShowsCursor ==
    main_pc = "recv" =>
        LET shown == frame(tasklists, Last(drawn)[1], Last(drawn)[2])
            list_index == list_state[1]
        IN  /\ Len(shown.lists.rows) = Len(tasklists)
            /\ \A i \in 1..Len(tasklists) : shown.lists.rows[i] = tasklists[i].id
            /\ shown.lists.highlighted = {list_index}
            /\ shown.tasks.rows = tasklists[list_index + 1].tasks
            /\ TaskFocus => shown.tasks.highlighted = {task_state[1]}
            /\ ListFocus => shown.tasks.highlighted = {}

-----------------------------------------------------------------------------
(* C16 as stated. The program runs until q is consumed: it has not ended   *)
(* unless the last event consumed is q, and then raw mode is off and the   *)
(* exit status is 0.                                                       *)

FailedExits == {"err", "panic:309", "panic:90", "panic:121"}

-----------------------------------------------------------------------------
(* C17. Whenever j is handled in TaskFocus, task_len, the bound it clamps  *)
(* against, is the number of tasks of the list selected at that moment     *)
(* minus one, whichever lists were selected before (for a list without     *)
(* tasks, reached without overflow checks, the usize subtraction wraps to  *)
(* the largest usize).                                                     *)

-----------------------------------------------------------------------------
(* C18. Handling an event and drawing the frame after it never fails,      *)
(* whatever the state and the event, the one exception being l in          *)
(* ListFocus on a list without tasks: after j or k onto a list without     *)
(* tasks, h, q, any other key or a Tick, main is waiting for the next      *)
(* event or has ended with status 0.                                       *)

EntersEmptyList ==
    /\ Head(chan) = Input("l")
    /\ ListFocus
    /\ selected_tasks = 0

C18_TransitionsTotal ==
    [][(main_pc = "recv" /\ consumed' # consumed /\ ~EntersEmptyList)
         => \/ main_pc' = "recv" /\ exit_status' = "none"
            \/ main_pc' = "returned" /\ exit_status' = "ok"]_vars

-----------------------------------------------------------------------------
(* C19. A key without an arm of its own leaves list_state and task_state   *)
(* as they are, in ListFocus (h among them) and in TaskFocus (l among      *)
(* them); no key handled in TaskFocus changes list_state; j and k handled  *)
(* in ListFocus do not change task_state.                                  *)

-----------------------------------------------------------------------------
(* C20. Once tick_rate has elapsed since the last tick, the event thread   *)
(* sends at most one key before the next Tick: a key sent with the         *)
(* deadline passed leaves the thread at the tick check, and from the tick  *)
(* check with the deadline passed the next thing sent is a Tick. So keys   *)
(* cannot hold Ticks back: with the thread scheduled fairly, whenever the  *)
(* deadline has passed a Tick is sent, unless main has stopped receiving   *)
(* or the thread has ended.                                                *)

KeySent == \E c \in Keys : produced' = Append(produced, Input(c))

DeadlinePassed == elapsed >= tick_rate

C20_TickNotStarved ==
    /\ [][(KeySent /\ DeadlinePassed') => src_pc' = "tick"]_vars
    /\ [][(src_pc = "tick" /\ DeadlinePassed /\ produced' # produced) => TickSent]_vars
    /\ (DeadlinePassed /\ rx_alive /\ src_pc # "panicked")
          ~> \/ last_tick = now /\ produced # << >> /\ Last(produced) = Tick
             \/ ~rx_alive
             \/ src_pc = "panicked"

\* The deadline has passed, the last thing sent is a key, main is
\* receiving, and the thread is at the tick check.
C20_Witness ==
    /\ DeadlinePassed
    /\ produced # << >> /\ Last(produced).type = "Input"
    /\ src_pc = "tick"
    /\ rx_alive
    /\ keyboard # << >>

====
